---- MODULE Spec2Model ----
(***************************************************************************)
(* mini-db: a single-table record store (src/src/engine.rs) over an        *)
(* append-only journal (src/src/storage.rs), an in-memory id index         *)
(* (src/src/index.rs) and a snapshot written by compaction.                *)
(*                                                                         *)
(* The directory data/ is a map from file names to file contents.  A file  *)
(* content is a sequence of tokens: the JSON text of one journal entry,    *)
(* the JSON text of one row array, a fragment of JSON left by an           *)
(* interrupted write, or a newline.  Reading a file parses these tokens    *)
(* the way BufRead::lines and serde_json do.                               *)
(*                                                                         *)
(* Offsets are those of the source (0-based); rows[pos + 1] is the TLA+    *)
(* element at Rust offset pos.                                             *)
(***************************************************************************)
EXTENDS Integers, Sequences, FiniteSets, TLC

\* ---------------------------------------------------------------- bounds
MaxWrites == 2
MaxRows == 2
MaxLines == 4
MaxSessionWrites == 4
MaxCompactWrites == 2
MaxHandleWrites == 2
\* the row count at which should_compact() answers true: 50_000 in the
\* source, here a count the runs reach
Threshold == 2

\* ---------------------------------------------------------------- data
Keys == {1, 2}
\* The code never looks into a name: only ids are compared.  Every journal
\* write of a run is offered its own name, which tells the record of a
\* re-inserted id from the record it replaces.
NamePool == <<"Alice", "Bob", "Carol", "Dave", "Eve", "Frank">>
Names == {NamePool[i] : i \in 1..Len(NamePool)}
Ages == {30}

Row(id, name, age) == [id |-> id, name |-> name, age |-> age]

LOG == "mini_db.log"
SNAPSHOT == "mini_db.snapshot"
\* mutant: the rows are serialized straight into the snapshot file
TMPIsSnapshot == "mini_db.snapshot"

TMP == "mini_db.snapshot.tmp"
DATAJSON == "data.json"

FileNames == {LOG, SNAPSHOT, TMP, DATAJSON}
Paths == {LOG, SNAPSHOT, DATAJSON}

NoFile == [exists |-> FALSE, data |-> <<>>]
File(content) == [exists |-> TRUE, data |-> content]
NoRow == [id |-> 0, name |-> "", age |-> 0]
NoPrev == [by |-> "none"]

\* LogEntry::Insert { row, timestamp } and LogEntry::Delete { id } as one
\* line of JSON text.  The timestamp is written but never read back
\* (the `..` pattern of load_all), and is left out.
InsertEntry(row) == [kind |-> "Insert", row |-> row]
DeleteEntry(id) == [kind |-> "Delete", id |-> id]
\* the "\n" that writeln! writes after the JSON text
NL == [kind |-> "NL"]
\* a proper prefix of a JSON text: what an interrupted write leaves
Partial == [kind |-> "Partial"]
\* serde_json::to_string(rows): one JSON array
ArrayText(rs) == [kind |-> "Array", rows |-> rs]

VARIABLES
    path,         \* the path every Database::new of this run is given
    files,        \* data/: file name -> content or NoFile
    status,       \* "closed" | "open": whether a Database value is alive
    rows,         \* Database.rows
    index,        \* Database.index.row_map: id -> offset
    storagePath,  \* Database.storage.path
    orphan,       \* content of the inode Database.storage.file is open on,
                  \* once a rename has replaced the file at storagePath
    pc,           \* position inside compact()
    last,         \* the last call and what it returned
    prev,         \* how the previous Database ended (kept until the first
                  \* call after the next open)
    session,      \* what this Database has been asked: "plain" (inserts,
                  \* deletes, reads), "compacted" (also compact), "other"
    writes,       \* journal writes started so far
    budget,       \* journal writes the run may start (model bound)
    handle,       \* DatabaseHandle: the RwLock and where each caller stands
    batch         \* exec_batch: the lines of the source and how far it got

vars == <<path, files, status, rows, index, storagePath, orphan, pc, last, prev, session, writes, budget, handle, batch>>

\* ---------------------------------------------------------------- helpers
Ids(rs) == {rs[i].id : i \in 1..Len(rs)}
RowSet(rs) == {rs[i] : i \in 1..Len(rs)}
NoDuplicateIds(rs) == \A i, j \in 1..Len(rs) : rs[i].id = rs[j].id => i = j
EmptyIndex == [k \in {} |-> 0]

Res(op, id, res, row) == [op |-> op, id |-> id, res |-> res, row |-> row]

\* ---------------------------------------------------------------- index.rs
IdIndexGet(idx, id) == IF id \in DOMAIN idx THEN idx[id] ELSE -1

\* mutant: the offset is taken after the push, one past the new row
IdIndexInsertOffByOne(idx, id, position) ==
    IF id \in DOMAIN idx
    THEN [ok |-> FALSE, map |-> idx]
    ELSE [ok |-> TRUE, map |-> [k \in DOMAIN idx \cup {id} |-> IF k = id THEN position + 1 ELSE idx[k]]]

IdIndexInsert(idx, id, position) ==
    IF id \in DOMAIN idx
    THEN [ok |-> FALSE, map |-> idx]
    ELSE [ok |-> TRUE, map |-> [k \in DOMAIN idx \cup {id} |-> IF k = id THEN position ELSE idx[k]]]

IdIndexRemove(idx, id) == [k \in DOMAIN idx \ {id} |-> idx[k]]

\* mutant: an id already in the map keeps its offset (entry().or_insert())
HashMapInsertIfAbsent(map, k, v) ==
    [x \in DOMAIN map \cup {k} |-> IF x \in DOMAIN map THEN map[x] ELSE v]

\* HashMap::insert(k, v): the value of a key already present is replaced
HashMapInsert(map, k, v) ==
    [x \in DOMAIN map \cup {k} |-> IF x = k THEN v ELSE map[x]]

\* the loop of rebuild from the i-th row on
RECURSIVE RebuildFrom(_, _, _)
RebuildFrom(rs, i, row_map) ==
    IF i > Len(rs) THEN row_map
    ELSE RebuildFrom(rs, i + 1, HashMapInsert(row_map, rs[i].id, i - 1))

\* mutant: the offsets are counted from one
RebuildOneBased(rs) ==
    LET row_map == RebuildFrom(rs, 1, EmptyIndex)
    IN  [k \in DOMAIN row_map |-> row_map[k] + 1]

\* IdIndex::rebuild(rows): a new map, filled row by row
Rebuild(rs) == RebuildFrom(rs, 1, EmptyIndex)

\* ---------------------------------------------------------------- storage.rs
RECURSIVE SplitLines(_, _, _)
SplitLines(content, cur, acc) ==
    IF content = <<>>
    THEN IF cur = <<>> THEN acc ELSE Append(acc, cur)
    ELSE IF Head(content) = NL
         THEN SplitLines(Tail(content), <<>>, Append(acc, cur))
         ELSE SplitLines(Tail(content), Append(cur, Head(content)), acc)

\* serde_json::from_str::<LogEntry>(line)
ParseLogEntry(line) ==
    IF Len(line) = 1 /\ line[1].kind \in {"Insert", "Delete"}
    THEN [ok |-> TRUE, entry |-> line[1]]
    ELSE [ok |-> FALSE]

\* mutant: the predicate of retain is inverted
RetainInverted(rs, id) == SelectSeq(rs, LAMBDA r : r.id = id)

\* rows.retain(|r| r.id != id)
Retain(rs, id) == SelectSeq(rs, LAMBDA r : r.id # id)

RECURSIVE LoadLines(_, _, _)
LoadLines(lines, line_num, rs) ==
    IF line_num >= Len(lines)
    THEN rs
    ELSE LET line == lines[line_num + 1]
             parsed == ParseLogEntry(line)
         IN  IF line = <<>>
             THEN LoadLines(lines, line_num + 1, rs)
             ELSE IF parsed.ok
                  THEN IF parsed.entry.kind = "Insert"
                       THEN LoadLines(lines, line_num + 1, Append(rs, parsed.entry.row))
                       ELSE LoadLines(lines, line_num + 1, Retain(rs, parsed.entry.id))
                  ELSE IF line_num = Len(rs)
                       THEN rs
                       ELSE LoadLines(lines, line_num + 1, rs)

LoadAll(fs, p) ==
    IF ~fs[p].exists
    THEN <<>>
    ELSE LoadLines(SplitLines(fs[p].data, <<>>, <<>>), 0, <<>>)

\* serde_json::from_reader::<Vec<Row>>: one array, then only whitespace
SnapshotRead(fs, p) ==
    IF /\ fs[p].exists
       /\ Len(fs[p].data) >= 1
       /\ fs[p].data[1].kind = "Array"
       /\ \A i \in 2..Len(fs[p].data) : fs[p].data[i] = NL
    THEN [ok |-> TRUE, rows |-> fs[p].data[1].rows]
    ELSE [ok |-> FALSE, rows |-> <<>>]

\* OpenOptions::new().append(true).create(true).open(data/p)
StorageNew(fs, p) == IF ~fs[p].exists THEN [fs EXCEPT ![p] = File(<<>>)] ELSE fs

\* the content Storage.file is open on
HandleFile == IF orphan.exists THEN orphan.data ELSE files[storagePath].data

\* writeln!(self.file, "{}", json) on an O_APPEND handle
Written(tokens) ==
    IF orphan.exists
    THEN /\ orphan' = File(orphan.data \o tokens)
         /\ files' = files
    ELSE /\ files' = [files EXCEPT ![storagePath] = File(@.data \o tokens)]
         /\ orphan' = orphan

AppendEntry(row) == Written(<<InsertEntry(row), NL>>)
\* mutant: the Delete entry is not written
AppendDeleteSkipped(id) == Written(<<>>)

AppendDelete(id) == Written(<<DeleteEntry(id), NL>>)

\* the run may start another journal write (model bound)
Room == writes < budget

\* ---------------------------------------------------------------- engine.rs
Idle == status = "open" /\ pc = "idle"

\* Database::load_from_disk(data/p)
LoadFromDisk(p) ==
    LET fs1 == StorageNew(files, LOG)
        snap == SnapshotRead(fs1, p)
        all == snap.rows \o LoadAll(fs1, LOG)
    IN  /\ files' = fs1
        /\ storagePath' = LOG
        /\ rows' = all
        /\ index' = Rebuild(all)

\* the working directory has no data/ in it
NoDataDir == [f \in {} |-> NoFile]
DataDir(fs) == DOMAIN fs # {}

\* mutant: a snapshot that does not decode fails the open
DatabaseNewStrict ==
    /\ status = "closed"
    /\ IF ~DataDir(files) \/ (files[path].exists /\ ~SnapshotRead(files, path).ok)
       THEN /\ status' = "closed"
            /\ last' = Res("open", 0, "IoError", NoRow)
            /\ UNCHANGED <<files, storagePath, rows, index>>
       ELSE /\ IF files[path].exists
               THEN LoadFromDisk(path)
               ELSE LET fs1 == StorageNew(files, path)
                        loaded == LoadAll(fs1, path)
                    IN  /\ files' = fs1
                        /\ storagePath' = path
                        /\ rows' = loaded
                        /\ index' = Rebuild(loaded)
            /\ status' = "open"
            /\ last' = Res("open", 0, "Ok", NoRow)
    /\ orphan' = NoFile
    /\ pc' = "idle"
    /\ session' = "plain"
    /\ UNCHANGED <<path, budget, prev, writes>>

\* Database::new(p).  Neither exists() nor OpenOptions::open creates data/:
\* without the directory exists() is false and the open in Storage::new
\* fails, which `?` returns.
DatabaseNew ==
    /\ status = "closed"
    /\ IF ~DataDir(files)
       THEN /\ status' = "closed"
            /\ last' = Res("open", 0, "IoError", NoRow)
            /\ UNCHANGED <<files, storagePath, rows, index>>
       ELSE /\ IF files[path].exists
               THEN LoadFromDisk(path)
               ELSE LET fs1 == StorageNew(files, path)
                        loaded == LoadAll(fs1, path)
                    IN  /\ files' = fs1
                        /\ storagePath' = path
                        /\ rows' = loaded
                        /\ index' = Rebuild(loaded)
            /\ status' = "open"
            /\ last' = Res("open", 0, "Ok", NoRow)
    /\ orphan' = NoFile
    /\ pc' = "idle"
    /\ session' = "plain"
    /\ UNCHANGED <<path, budget, prev, writes>>

\* mutant: only the newest row is compared
HasIdLastOnly(rs, id) == Len(rs) > 0 /\ rs[Len(rs)].id = id

\* self.rows.iter().any(|r| r.id == id)
HasId(rs, id) == \E i \in 1..Len(rs) : rs[i].id = id

\* mutant: the row is pushed and indexed before the journal write
InsertPushFirst(id, name, age, io) ==
    /\ Idle
    /\ IF HasId(rows, id)
       THEN /\ last' = Res("insert", id, "DuplicateIdError", NoRow)
            /\ UNCHANGED <<files, orphan, rows, index, writes>>
       ELSE LET newly_created_row == Row(id, name, age)
                ins == IdIndexInsert(index, id, Len(rows))
            IN  /\ rows' = Append(rows, newly_created_row)
                /\ index' = ins.map
                /\ IF io = "fail"
                   THEN /\ last' = Res("insert", id, "IoError", NoRow)
                        /\ UNCHANGED <<files, orphan, writes>>
                   ELSE /\ Room
                        /\ AppendEntry(newly_created_row)
                        /\ writes' = writes + 1
                        /\ last' = Res("insert", id, "Ok", newly_created_row)
    /\ prev' = NoPrev
    /\ UNCHANGED <<path, budget, status, storagePath, pc, session>>

\* Database::insert(id, name, age); io is whether the journal write succeeds
Insert(id, name, age, io) ==
    /\ Idle
    /\ IF HasId(rows, id)
       THEN /\ last' = Res("insert", id, "DuplicateIdError", NoRow)
            /\ UNCHANGED <<files, orphan, rows, index, writes>>
       ELSE IF io = "fail"
       THEN /\ last' = Res("insert", id, "IoError", NoRow)
            /\ UNCHANGED <<files, orphan, rows, index, writes>>
       ELSE LET newly_created_row == Row(id, name, age)
                ins == IdIndexInsert(index, id, Len(rows))
            IN  /\ Room
                /\ AppendEntry(newly_created_row)
                /\ writes' = writes + 1
                /\ rows' = Append(rows, newly_created_row)
                /\ index' = ins.map
                /\ last' = Res("insert", id,
                               IF ins.ok THEN "Ok" ELSE "DuplicateIdError",
                               newly_created_row)
    /\ prev' = NoPrev
    /\ UNCHANGED <<path, budget, status, storagePath, pc, session>>

\* mutant: Vec::swap_remove, the last row takes the place of the removed one
RemoveAtSwap(rs, pos) ==
    IF pos + 1 = Len(rs)
    THEN SubSeq(rs, 1, pos)
    ELSE SubSeq(rs, 1, pos) \o <<rs[Len(rs)]>> \o SubSeq(rs, pos + 2, Len(rs) - 1)

\* self.rows.remove(pos)
RemoveAt(rs, pos) == SubSeq(rs, 1, pos) \o SubSeq(rs, pos + 2, Len(rs))

\* mutant: the Delete entry is journaled before the index is asked
DeleteByIdJournalFirst(id, io) ==
    /\ Idle
    /\ Room
    /\ AppendDelete(id)
    /\ writes' = writes + 1
    /\ LET pos == IdIndexGet(index, id)
       IN  IF pos >= 0 /\ pos < Len(rows)
           THEN /\ rows' = RemoveAt(rows, pos)
                /\ index' = Rebuild(RemoveAt(rows, pos))
                /\ last' = Res("delete", id, "true", rows[pos + 1])
           ELSE /\ last' = Res("delete", id, "false", NoRow)
                /\ UNCHANGED <<rows, index>>
    /\ prev' = NoPrev
    /\ UNCHANGED <<path, budget, status, storagePath, pc, session>>

\* mutant: the row is removed and the index is left as it was
DeleteByIdKeepIndex(id, io) ==
    /\ Idle
    /\ LET pos == IdIndexGet(index, id)
       IN  IF pos >= 0 /\ pos < Len(rows)
           THEN IF io = "fail"
                THEN /\ last' = Res("delete", id, "IoError", NoRow)
                     /\ UNCHANGED <<files, orphan, rows, index, writes>>
                ELSE /\ Room
                     /\ AppendDelete(id)
                     /\ writes' = writes + 1
                     /\ rows' = RemoveAt(rows, pos)
                     /\ index' = index
                     /\ last' = Res("delete", id, "true", rows[pos + 1])
           ELSE /\ last' = Res("delete", id, "false", NoRow)
                /\ UNCHANGED <<files, orphan, rows, index, writes>>
    /\ prev' = NoPrev
    /\ UNCHANGED <<path, budget, status, storagePath, pc, session>>


\* Database::delete_by_id(id); io is whether the journal write succeeds.
\* Vec::remove panics on an offset past the end: the id has then left the
\* index and its Delete entry is written, the rows are as they were.
DeleteById(id, io) ==
    /\ Idle
    /\ LET pos == IdIndexGet(index, id)
       IN  IF pos >= 0
           THEN IF io = "fail"
                THEN /\ index' = IdIndexRemove(index, id)
                     /\ last' = Res("delete", id, "IoError", NoRow)
                     /\ UNCHANGED <<files, orphan, rows, writes>>
                ELSE /\ Room
                     /\ AppendDelete(id)
                     /\ writes' = writes + 1
                     /\ IF pos < Len(rows)
                        THEN /\ rows' = RemoveAt(rows, pos)
                             /\ index' = Rebuild(RemoveAt(rows, pos))
                             /\ last' = Res("delete", id, "true", rows[pos + 1])
                        ELSE /\ rows' = rows
                             /\ index' = IdIndexRemove(index, id)
                             /\ last' = Res("delete", id, "panic", NoRow)
           ELSE /\ last' = Res("delete", id, "false", NoRow)
                /\ UNCHANGED <<files, orphan, rows, index, writes>>
    /\ prev' = NoPrev
    /\ UNCHANGED <<path, budget, status, storagePath, pc, session>>

\* mutant: an id the index does not hold is answered with an error
SelectedOrNotFound(rs, idx, id) ==
    LET pos == IdIndexGet(idx, id)
    IN  IF pos >= 0 /\ pos < Len(rs)
        THEN Res("select", id, "Some", rs[pos + 1])
        ELSE Res("select", id, "NotFound", NoRow)

\* what Database::select_by_id(id) returns; indexing past the end panics
Selected(rs, idx, id) ==
    LET pos == IdIndexGet(idx, id)
    IN  IF pos >= 0
        THEN IF pos < Len(rs)
             THEN Res("select", id, "Some", rs[pos + 1])
             ELSE Res("select", id, "panic", NoRow)
        ELSE Res("select", id, "None", NoRow)

\* Database::select_by_id(id)
SelectById(id) ==
    /\ Idle
    /\ last' = Selected(rows, index, id)
    /\ prev' = NoPrev
    /\ UNCHANGED <<path, budget, files, status, rows, index, storagePath, orphan, pc, session, writes>>

\* Database::select_all(): the caller is handed rows itself
SelectAll ==
    /\ Idle
    /\ last' = [op |-> "select_all", id |-> 0, res |-> "Ok", row |-> NoRow, rows |-> rows]
    /\ prev' = NoPrev
    /\ UNCHANGED <<path, budget, files, status, rows, index, storagePath, orphan, pc, session, writes>>

\* mutant: the index is not cleared
ResetDbKeepIndex ==
    /\ Idle
    /\ rows' = <<>>
    /\ index' = index
    /\ files' = [files EXCEPT ![storagePath] = File(<<>>)]
    /\ orphan' = orphan
    /\ last' = Res("reset", 0, "Ok", NoRow)
    /\ prev' = NoPrev
    /\ session' = "other"
    /\ UNCHANGED <<path, budget, status, storagePath, pc, writes>>

\* Database::reset_db(): File::create(&self.storage.path) truncates the file
\* of that name; the append handle stays open on its own inode
ResetDb ==
    /\ Idle
    /\ rows' = <<>>
    /\ index' = EmptyIndex
    /\ files' = [files EXCEPT ![storagePath] = File(<<>>)]
    /\ orphan' = orphan
    /\ last' = Res("reset", 0, "Ok", NoRow)
    /\ prev' = NoPrev
    /\ session' = "other"
    /\ UNCHANGED <<path, budget, status, storagePath, pc, writes>>

\* Database::shutdown(): Storage::flush, nothing is buffered in user space
Shutdown ==
    /\ Idle
    /\ last' = Res("shutdown", 0, "Ok", NoRow)
    /\ prev' = NoPrev
    /\ UNCHANGED <<path, budget, files, status, rows, index, storagePath, orphan, pc, session, writes>>

\* mutant: every count from the threshold on asks for a compaction
ShouldCompactAtLeast(rs) == Len(rs) >= Threshold

\* Database::should_compact(); no function of the crate calls it
ShouldCompact(rs) == Len(rs) >= Threshold /\ Len(rs) % Threshold = 0

\* Database::compact(), one action per file-system call.
\* Storage::snapshot_write: open(tmp, create + truncate)
CompactOpenTmp ==
    /\ Idle
    /\ Len(rows) <= MaxRows
    /\ files' = [files EXCEPT ![TMP] = File(<<>>)]
    /\ pc' = "tmp_open"
    /\ last' = Res("compact", 0, "running", NoRow)
    /\ prev' = NoPrev
    /\ session' = IF session = "plain" THEN "compacted" ELSE session
    /\ UNCHANGED <<path, budget, status, rows, index, storagePath, orphan, writes>>

\* Storage::snapshot_write: write_all, flush, sync_all
CompactWriteTmp ==
    /\ status = "open" /\ pc = "tmp_open"
    /\ files' = [files EXCEPT ![TMP] = File(<<ArrayText(rows)>>)]
    /\ pc' = "tmp_written"
    /\ UNCHANGED <<path, budget, status, rows, index, storagePath, orphan, last, prev, session, writes>>

\* Storage::snapshot_write: fs::rename(tmp, data/mini_db.snapshot)
CompactRename ==
    /\ status = "open" /\ pc = "tmp_written"
    /\ files' = [files EXCEPT ![SNAPSHOT] = files[TMP], ![TMP] = NoFile]
    /\ orphan' = IF storagePath = SNAPSHOT /\ ~orphan.exists THEN files[SNAPSHOT] ELSE orphan
    /\ pc' = "renamed"
    /\ UNCHANGED <<path, budget, status, rows, index, storagePath, last, prev, session, writes>>

\* mutant: the journal is truncated before the snapshot is renamed into place
LogTruncateEarly ==
    /\ status = "open" /\ pc = "tmp_written"
    /\ files' = [files EXCEPT ![LOG] = File(<<>>)]
    /\ pc' = "tmp_written"
    /\ last' = Res("compact", 0, "truncating", NoRow)
    /\ UNCHANGED <<path, budget, status, rows, index, storagePath, orphan, prev, session, writes>>

\* Storage::log_truncate("data/mini_db.log"): create + truncate
LogTruncate ==
    /\ status = "open" /\ pc = "renamed"
    /\ files' = [files EXCEPT ![LOG] = File(<<>>)]
    /\ pc' = "idle"
    /\ last' = Res("compact", 0, "Ok", NoRow)
    /\ UNCHANGED <<path, budget, status, rows, index, storagePath, orphan, prev, session, writes>>

\* where compact() stands: "truncated" once it has returned Ok and nothing
\* else has been called since
CompactAt == IF pc = "idle" /\ last.op = "compact" /\ last.res = "Ok" THEN "truncated" ELSE pc

\* compact() returns the Err of a failed file-system call (the ? operator)
CompactErr ==
    /\ pc' = "idle"
    /\ last' = Res("compact", 0, "IoError", NoRow)
    /\ prev' = NoPrev
    /\ session' = IF session = "plain" THEN "compacted" ELSE session
    /\ UNCHANGED <<path, budget, status, rows, index, storagePath, orphan, writes>>

\* Storage::snapshot_write: open(tmp) fails
SnapshotOpenFail ==
    /\ Idle
    /\ files' = files
    /\ CompactErr

\* Storage::snapshot_write: write_all, flush or sync_all fails, with none,
\* part or all of the text in the temporary file
SnapshotWriteFail(text) ==
    /\ status = "open" /\ pc = "tmp_open"
    /\ files' = [files EXCEPT ![TMP] = File(text)]
    /\ CompactErr

\* Storage::snapshot_write: fs::rename fails
SnapshotRenameFail ==
    /\ status = "open" /\ pc = "tmp_written"
    /\ files' = files
    /\ CompactErr

\* Storage::log_truncate fails: in open (the journal is as it was) or in
\* flush / sync_all (the journal is already empty)
LogTruncateFail(truncated) ==
    /\ status = "open" /\ pc = "renamed"
    /\ files' = IF truncated THEN [files EXCEPT ![LOG] = File(<<>>)] ELSE files
    /\ CompactErr

\* what ends a Database: its memory is gone, the files stay
Ended(by, at) ==
    /\ status' = "closed"
    /\ prev' = [by |-> by, live |-> rows, at |-> at, session |-> session]
    /\ rows' = <<>>
    /\ index' = EmptyIndex
    /\ orphan' = NoFile
    /\ pc' = "idle"
    /\ session' = "plain"
    /\ last' = Res(by, 0, "Ok", NoRow)
    /\ UNCHANGED <<path, budget, storagePath>>

\* drop(db): the Database goes out of scope
Close ==
    /\ Idle
    /\ Ended("drop", CompactAt)
    /\ UNCHANGED <<files, writes>>

\* the process dies between two file-system calls of compact(), or right
\* after it (anywhere else the files are left as by a drop)
Crash ==
    /\ status = "open"
    /\ CompactAt # "idle"
    /\ Ended("crash", CompactAt)
    /\ UNCHANGED <<files, writes>>

\* the process dies inside write_all of snapshot_write
CrashInSnapshotWrite ==
    /\ status = "open" /\ pc = "tmp_open"
    /\ Ended("crash", "tmp_open")
    /\ files' = [files EXCEPT ![TMP] = File(<<Partial>>)]
    /\ UNCHANGED writes

\* the process dies inside writeln! of append_entry / append_delete, part
\* of the JSON text written and no "\n"
CrashInAppend(entry) ==
    /\ Idle
    /\ Room
    /\ \/ entry.kind = "Insert" /\ ~HasId(rows, entry.row.id)
       \/ entry.kind = "Delete" /\ IdIndexGet(index, entry.id) >= 0
    /\ Ended("torn", "idle")
    /\ writes' = writes + 1
    /\ files' = IF orphan.exists
                THEN files
                ELSE [files EXCEPT ![storagePath] = File(@.data \o <<Partial>>)]

\* the name the next call is given
NextName == NamePool[writes + 1]

\* the entries a call can be writing when the process dies
Entries ==
    {InsertEntry(Row(id, NextName, age)) : id \in Keys, age \in Ages}
        \cup {DeleteEntry(id) : id \in Keys}

\* no DatabaseHandle wraps the Database
NoHandle == [used |-> FALSE]
\* no exec_batch has been called
NoBatch ==
    [name |-> "", lines |-> <<>>, done |-> 0, stop |-> "none", before |-> <<>>,
     clean |-> TRUE, stack |-> <<>>]

\* a step of a Database its owner calls directly, outside exec_batch
Engine(step) == step /\ UNCHANGED <<handle, batch>>

Init ==
    /\ handle = NoHandle
    /\ batch = NoBatch
    /\ path \in Paths
    /\ files = [f \in FileNames |-> NoFile]
    /\ status = "closed"
    /\ rows = <<>>
    /\ index = EmptyIndex
    /\ storagePath = LOG
    /\ orphan = NoFile
    /\ pc = "idle"
    /\ last = Res("none", 0, "Ok", NoRow)
    /\ prev = NoPrev
    /\ session = "plain"
    /\ writes = 0
    /\ budget = MaxWrites

Next ==
    \/ Engine(DatabaseNew)
    \/ \E id \in Keys, name \in {NextName}, age \in Ages, io \in {"ok", "fail"} : Engine(Insert(id, name, age, io))
    \/ \E id \in Keys, io \in {"ok", "fail"} : Engine(DeleteById(id, io))
    \/ \E id \in Keys : Engine(SelectById(id))
    \/ Engine(SelectAll)
    \/ Engine(ResetDb)
    \/ Engine(Shutdown)
    \/ Engine(CompactOpenTmp)
    \/ Engine(CompactWriteTmp)
    \/ Engine(CompactRename)
    \/ Engine(LogTruncate)
    \/ Engine(Close)
    \/ Engine(Crash)
    \/ Engine(CrashInSnapshotWrite)
    \/ \E entry \in Entries : Engine(CrashInAppend(entry))

Spec == Init /\ [][Next]_vars

\* ---------------------------------------------------------------- handle
\* DatabaseHandle: Arc<RwLock<Database>> (parking_lot).  Each caller is a
\* thread that calls one method at a time: it asks for the lock, holds the
\* guard while the Database method runs, and drops the guard on return.
Threads == {"a", "b", "c"}
HandleKeys == {1}

NoOp == [name |-> "none", id |-> 0]
ReadOps == {[name |-> "select_by_id", id |-> k] : k \in HandleKeys}
               \cup {[name |-> "select_all", id |-> 0]}
BatchOp == [name |-> "exec_batch", id |-> 0]
WriteOps == {[name |-> n, id |-> k] : n \in {"insert", "delete_by_id"}, k \in HandleKeys}
                \cup {[name |-> n, id |-> 0] : n \in {"reset_db", "compact", "shutdown"}}
                \cup {BatchOp}

\* DatabaseHandle::new: a fresh RwLock, no caller yet
NewHandle ==
    [used |-> TRUE, writer |-> "none", readers |-> {}, queue |-> <<>>,
     at |-> [t \in Threads |-> "out"], op |-> [t \in Threads |-> NoOp]]

\* the callers that hold a guard
Inside == {t \in Threads : handle.at[t] \in {"in", "running", "done"}}
\* the callers parked in write()
WaitingWriters ==
    {t \in Threads : handle.at[t] \in {"waiting", "parked"} /\ handle.op[t] \in WriteOps}

\* DatabaseHandle::new(path)
HandleNew ==
    /\ DatabaseNew
    /\ handle' = NewHandle
    /\ UNCHANGED batch

\* a thread calls a method of the handle and reaches the lock
HandleCall(t, op) ==
    /\ handle.used /\ handle.at[t] = "out"
    /\ handle' = [handle EXCEPT !.at[t] = "waiting", !.op[t] = op]
    /\ UNCHANGED <<path, budget, files, status, rows, index, storagePath, orphan, pc, last, prev, session, writes, batch>>

\* self.inner.read(): granted when no writer holds the lock and none is
\* parked (parking_lot keeps new readers behind a waiting writer)
LockRead(t) ==
    /\ handle.used /\ handle.at[t] = "waiting" /\ handle.op[t] \in ReadOps
    /\ handle.writer = "none"
    /\ WaitingWriters = {}
    /\ handle' = [handle EXCEPT !.at[t] = "in", !.readers = @ \cup {t}]
    /\ UNCHANGED <<path, budget, files, status, rows, index, storagePath, orphan, pc, last, prev, session, writes, batch>>

\* mutant: write() is granted while readers hold the lock
LockWriteOverReaders(t) ==
    /\ handle.used /\ handle.at[t] = "waiting" /\ handle.op[t] \in WriteOps
    /\ handle.writer = "none"
    /\ handle' = [handle EXCEPT !.at[t] = "in", !.writer = t]
    /\ UNCHANGED <<path, budget, files, status, rows, index, storagePath, orphan, pc, last, prev, session, writes, batch>>

\* mutant: write() is granted while another writer holds the lock
LockWriteWhileHeld(t) ==
    /\ handle.used /\ handle.at[t] = "waiting" /\ handle.op[t] \in WriteOps
    /\ handle.readers = {}
    /\ handle' = [handle EXCEPT !.at[t] = "in", !.writer = t]
    /\ UNCHANGED <<path, budget, files, status, rows, index, storagePath, orphan, pc, last, prev, session, writes, batch>>

\* self.inner.write(): granted when nobody holds the lock
LockWrite(t) ==
    /\ handle.used /\ handle.at[t] = "waiting" /\ handle.op[t] \in WriteOps
    /\ handle.writer = "none"
    /\ handle.readers = {}
    /\ handle' = [handle EXCEPT !.at[t] = "in", !.writer = t]
    /\ UNCHANGED <<path, budget, files, status, rows, index, storagePath, orphan, pc, last, prev, session, writes, batch>>

\* the Database method has returned to the handle's method
Ran(t) == handle' = [handle EXCEPT !.at[t] = "done"]

\* db.insert(..), db.delete_by_id(..), db.select_by_id(..), db.select_all(),
\* db.reset_db(), db.shutdown() under the guard
HandleRun(t, io) ==
    /\ handle.used /\ handle.at[t] = "in"
    /\ LET op == handle.op[t]
       IN  \/ op.name = "insert" /\ \E age \in Ages : Insert(op.id, NextName, age, io)
           \/ op.name = "delete_by_id" /\ DeleteById(op.id, io)
           \/ op.name = "select_by_id" /\ io = "ok" /\ SelectById(op.id)
           \/ op.name = "select_all" /\ io = "ok" /\ SelectAll
           \/ op.name = "reset_db" /\ io = "ok" /\ ResetDb
           \/ op.name = "shutdown" /\ io = "ok" /\ Shutdown
    /\ Ran(t)
    /\ UNCHANGED batch

\* db.compact() under the guard, one step per file-system call
HandleCompactStart(t) ==
    /\ handle.used /\ handle.at[t] = "in" /\ handle.op[t].name = "compact"
    /\ CompactOpenTmp
    /\ handle' = [handle EXCEPT !.at[t] = "running"]
    /\ UNCHANGED batch

HandleCompactStep(t) ==
    /\ handle.used /\ handle.at[t] = "running"
    /\ UNCHANGED batch
    /\ \/ CompactWriteTmp /\ UNCHANGED handle
       \/ CompactRename /\ UNCHANGED handle
       \/ LogTruncate /\ Ran(t)

\* the guard is dropped at the end of the handle's method
HandleReturn(t) ==
    /\ handle.used /\ handle.at[t] = "done"
    /\ handle' = [handle EXCEPT !.at[t] = "out", !.op[t] = NoOp,
                                !.writer = IF @ = t THEN "none" ELSE @,
                                !.readers = @ \ {t}]
    /\ UNCHANGED <<path, budget, files, status, rows, index, storagePath, orphan, pc, last, prev, session, writes, batch>>

InitHandle ==
    /\ handle = NoHandle
    /\ batch = NoBatch
    /\ path = LOG
    /\ files = [f \in FileNames |-> NoFile]
    /\ status = "closed"
    /\ rows = <<>>
    /\ index = EmptyIndex
    /\ storagePath = LOG
    /\ orphan = NoFile
    /\ pc = "idle"
    /\ last = Res("none", 0, "Ok", NoRow)
    /\ prev = NoPrev
    /\ session = "plain"
    /\ writes = 0
    /\ budget = MaxHandleWrites

NextHandle ==
    \/ HandleNew
    \/ \E t \in Threads, op \in ReadOps \cup (WriteOps \ {BatchOp}) : HandleCall(t, op)
    \/ \E t \in Threads : LockRead(t)
    \/ \E t \in Threads : LockWrite(t)
    \/ \E t \in Threads, io \in {"ok", "fail"} : HandleRun(t, io)
    \/ \E t \in Threads : HandleCompactStart(t)
    \/ \E t \in Threads : HandleCompactStep(t)
    \/ \E t \in Threads : HandleReturn(t)

SpecHandle == InitHandle /\ [][NextHandle]_vars

\* ---------------------------------------------------------------- compaction
\* compact() with each of its file-system calls succeeding, failing, or cut
\* short by the death of the process.
InitCompact ==
    /\ handle = NoHandle
    /\ batch = NoBatch
    /\ path \in Paths
    /\ files = [f \in FileNames |-> NoFile]
    /\ status = "closed"
    /\ rows = <<>>
    /\ index = EmptyIndex
    /\ storagePath = LOG
    /\ orphan = NoFile
    /\ pc = "idle"
    /\ last = Res("none", 0, "Ok", NoRow)
    /\ prev = NoPrev
    /\ session = "plain"
    /\ writes = 0
    /\ budget = MaxCompactWrites

NextCompact ==
    \/ Engine(DatabaseNew)
    \/ \E id \in Keys, age \in Ages : Engine(Insert(id, NextName, age, "ok"))
    \/ \E id \in Keys : Engine(DeleteById(id, "ok"))
    \/ Engine(CompactOpenTmp)
    \/ Engine(CompactWriteTmp)
    \/ Engine(CompactRename)
    \/ Engine(LogTruncate)
    \/ Engine(SnapshotOpenFail)
    \/ \E text \in {<<>>, <<Partial>>, <<ArrayText(rows)>>} : Engine(SnapshotWriteFail(text))
    \/ Engine(SnapshotRenameFail)
    \/ \E truncated \in BOOLEAN : Engine(LogTruncateFail(truncated))
    \/ Engine(Close)
    \/ Engine(Crash)
    \/ Engine(CrashInSnapshotWrite)

SpecCompact == InitCompact /\ [][NextCompact]_vars

\* ---------------------------------------------------------------- session
\* One Database from its creation on an empty data/ to any point of its
\* life: inserts, deletes and reads only, more of them and on more keys than
\* Spec affords.
SessionKeys == {1, 2, 3}

InitSession ==
    /\ handle = NoHandle
    /\ batch = NoBatch
    /\ path = LOG
    /\ files = [f \in FileNames |-> NoFile]
    /\ status = "closed"
    /\ rows = <<>>
    /\ index = EmptyIndex
    /\ storagePath = LOG
    /\ orphan = NoFile
    /\ pc = "idle"
    /\ last = Res("none", 0, "Ok", NoRow)
    /\ prev = NoPrev
    /\ session = "plain"
    /\ writes = 0
    /\ budget = MaxSessionWrites

NextSession ==
    \/ Engine(DatabaseNew)
    \/ \E id \in SessionKeys, age \in Ages, io \in {"ok", "fail"} : Engine(Insert(id, NextName, age, io))
    \/ \E id \in SessionKeys, io \in {"ok", "fail"} : Engine(DeleteById(id, io))
    \/ \E id \in SessionKeys : Engine(SelectById(id))
    \/ Engine(SelectAll)

SpecSession == InitSession /\ [][NextSession]_vars

\* ---------------------------------------------------------------- batch
\* exec_batch(path): the lines of a file, each handed to
\* parser::handle_command together with a DatabaseHandle opened for that line.
MaxBatchLines == 2
MaxBatchWrites == 2

\* str::to_lowercase on the words the batch sources are made of
ToLowercase(w) ==
    CASE w = "INSERT" -> "insert"
      [] w = "DELETE" -> "delete"
      [] w = "EXEC" -> "exec"
      [] w = "BATCH" -> "batch"
      [] w = "WHERE" -> "where"
      [] w = "ID=1" -> "id=1"
      [] w = "Alice" -> "alice"
      [] OTHER -> w

\* str::parse::<u32>() and str::parse::<u8>()
ParseInt(w) ==
    CASE w = "1" -> [ok |-> TRUE, val |-> 1]
      [] w = "2" -> [ok |-> TRUE, val |-> 2]
      [] w = "30" -> [ok |-> TRUE, val |-> 30]
      [] OTHER -> [ok |-> FALSE, val |-> 0]

\* tokens[2].starts_with("id=") and tokens[2].split("=").nth(1)
IdClause(w) ==
    CASE w = "id=1" -> [starts |-> TRUE, rest |-> "1"]
      [] w = "id=2" -> [starts |-> TRUE, rest |-> "2"]
      [] w = "id=one" -> [starts |-> TRUE, rest |-> "one"]
      [] OTHER -> [starts |-> FALSE, rest |-> ""]

InvalidCommand == [ok |-> FALSE, cmd |-> "none", id |-> 0, name |-> "", age |-> 0]

\* parser::parse_command(input); words is input split at white space
ParseCommand(words) ==
    LET tokens == [i \in 1..Len(words) |-> ToLowercase(words[i])]
    IN  IF Len(tokens) = 0 THEN InvalidCommand
        ELSE IF tokens[1] = "exec"
        THEN IF Len(tokens) = 3 /\ tokens[2] = "batch"
             THEN [ok |-> TRUE, cmd |-> "exec_batch", id |-> 0,
                   name |-> tokens[3], age |-> 0]
             ELSE InvalidCommand
        ELSE IF tokens[1] = "insert"
        THEN IF Len(tokens) = 4
             THEN LET id == ParseInt(tokens[2])
                      age == ParseInt(tokens[4])
                  IN  IF id.ok /\ age.ok
                      THEN [ok |-> TRUE, cmd |-> "insert", id |-> id.val,
                            name |-> tokens[3], age |-> age.val]
                      ELSE InvalidCommand
             ELSE InvalidCommand
        ELSE IF tokens[1] = "delete"
        THEN IF Len(tokens) = 3 /\ tokens[2] = "where" /\ IdClause(tokens[3]).starts
             THEN LET id == ParseInt(IdClause(tokens[3]).rest)
                  IN  IF id.ok
                      THEN [ok |-> TRUE, cmd |-> "delete", id |-> id.val,
                            name |-> "", age |-> 0]
                      ELSE InvalidCommand
             ELSE InvalidCommand
        ELSE InvalidCommand

\* the lines the batch sources are made of: an insert, a delete, an insert
\* whose id is no number, and an empty line
BatchLines ==
    { <<"INSERT", "1", "Alice", "30">>,
      <<"DELETE", "WHERE", "ID=1">>,
      <<"INSERT", "one", "Alice", "30">>,
      <<>> }

\* the files exec_batch may be pointed at, and a path that names no file
BatchSources ==
    {[name |-> "batch.txt", exists |-> FALSE, lines |-> <<>>]}
        \cup {[name |-> "batch.txt", exists |-> TRUE, lines |-> ls] :
                 ls \in UNION {[1..n -> BatchLines] : n \in 0..MaxBatchLines}}

\* batch files that name batch files: one that names itself, two that name
\* each other, and one that names a file with no EXEC BATCH line in it
MaxBatchDepth == 3

BatchDir ==
    [f \in {"self.txt", "ping.txt", "pong.txt", "outer.txt", "flat.txt"} |->
        CASE f = "self.txt" -> << <<"INSERT", "1", "Alice", "30">>, <<"EXEC", "BATCH", "self.txt">> >>
          [] f = "ping.txt" -> << <<"EXEC", "BATCH", "pong.txt">> >>
          [] f = "pong.txt" -> << <<"EXEC", "BATCH", "ping.txt">>, <<"INSERT", "1", "Alice", "30">> >>
          [] f = "outer.txt" -> << <<"EXEC", "BATCH", "flat.txt">>, <<"EXEC", "BATCH", "none.txt">> >>
          [] f = "flat.txt" -> << <<"INSERT", "1", "Alice", "30">> >>]

\* the file of that name as exec_batch finds it
SourceOf(f) ==
    IF f \in DOMAIN BatchDir
    THEN [name |-> f, exists |-> TRUE, lines |-> BatchDir[f]]
    ELSE [name |-> f, exists |-> FALSE, lines |-> <<>>]

NestedSources == {SourceOf(f) : f \in DOMAIN BatchDir \cup {"none.txt"}}

\* Database::new(p) on the files fs: the files it leaves and the Database
Opened(fs, p) ==
    IF fs[p].exists
    THEN LET fs1 == StorageNew(fs, LOG)
             all == SnapshotRead(fs1, p).rows \o LoadAll(fs1, LOG)
         IN  [files |-> fs1, storagePath |-> LOG, rows |-> all, index |-> Rebuild(all)]
    ELSE LET fs1 == StorageNew(fs, p)
             loaded == LoadAll(fs1, p)
         IN  [files |-> fs1, storagePath |-> p, rows |-> loaded, index |-> Rebuild(loaded)]

\* parser::handle_command(line, db) for the commands of BatchLines: the
\* files db leaves when it is dropped, whether it wrote a journal entry and
\* whether a journal write failed.  Every outcome is printed and the caller
\* is told to go on.
HandleCommand(words, db, io) ==
    LET c == ParseCommand(words)
        same == [files |-> db.files, wrote |-> FALSE, failed |-> FALSE]
        appended(entry) ==
            IF io = "write_fail"
            THEN [files |-> db.files, wrote |-> FALSE, failed |-> TRUE]
            ELSE [files |-> [db.files EXCEPT ![db.storagePath] = File(@.data \o <<entry, NL>>)],
                  wrote |-> TRUE, failed |-> FALSE]
    IN  IF ~c.ok \/ c.cmd = "exec_batch" THEN same
        ELSE IF c.cmd = "insert"
        THEN IF HasId(db.rows, c.id) THEN same
             ELSE appended(InsertEntry(Row(c.id, c.name, c.age)))
        ELSE IF IdIndexGet(db.index, c.id) >= 0 THEN appended(DeleteEntry(c.id))
             ELSE same

\* Database::exec_batch(path) up to the loop: the existence test and the open
ExecBatchOpen(src) ==
    /\ Idle
    /\ IF ~src.exists
       THEN /\ last' = Res("exec_batch", 0, "IoError", NoRow)
            /\ batch' = [NoBatch EXCEPT !.name = src.name, !.stop = "not_found", !.before = rows]
            /\ pc' = pc
       ELSE /\ writes + Len(src.lines) <= budget
            /\ batch' = [name |-> src.name, lines |-> src.lines, done |-> 0,
                         stop |-> "none", before |-> rows, clean |-> TRUE,
                         stack |-> <<>>]
            /\ pc' = "batch"
            /\ last' = last
    /\ prev' = NoPrev
    /\ session' = "other"
    /\ UNCHANGED <<path, budget, files, status, rows, index, storagePath, orphan, writes>>

\* the exec_batch that called this one goes on after the line that named it
Resumed ==
    LET caller == batch.stack[Len(batch.stack)]
    IN  [batch EXCEPT !.name = caller.name, !.lines = caller.lines,
                      !.done = caller.done + 1,
                      !.stack = SubSeq(@, 1, Len(@) - 1)]

\* the call stack of a process has no bound the code sets; of the calls of
\* exec_batch that have not returned the innermost MaxBatchDepth are kept
Innermost(stack) ==
    IF Len(stack) > MaxBatchDepth THEN Tail(stack) ELSE stack

\* one turn of the loop: `line?`, DatabaseHandle::new("mini_db.snapshot")?
\* and handle_command on that handle, whose answer is dropped.  A line
\* EXEC BATCH f makes handle_command call exec_batch(f) on that handle; an
\* error of an exec_batch called by a line is printed by handle_command and
\* the calling loop goes on.
ExecBatchLine(io) ==
    /\ status = "open" /\ pc = "batch"
    /\ batch.done < Len(batch.lines)
    /\ IF io \in {"read_fail", "open_fail"}
       THEN /\ IF batch.stack = <<>>
               THEN /\ batch' = [batch EXCEPT !.stop = io]
                    /\ pc' = "idle"
                    /\ last' = Res("exec_batch", 0, "IoError", NoRow)
               ELSE /\ batch' = Resumed
                    /\ UNCHANGED <<pc, last>>
            /\ UNCHANGED <<files, writes>>
       ELSE LET words == batch.lines[batch.done + 1]
                c == ParseCommand(words)
                ran == HandleCommand(words, Opened(files, SNAPSHOT), io)
                called == SourceOf(c.name)
            IN  /\ files' = ran.files
                /\ writes' = IF ran.wrote THEN writes + 1 ELSE writes
                /\ IF c.ok /\ c.cmd = "exec_batch" /\ called.exists
                   THEN batch' = [batch EXCEPT
                                     !.name = called.name,
                                     !.lines = called.lines,
                                     !.done = 0,
                                     !.stack = Innermost(Append(@, [name |-> batch.name,
                                                                    lines |-> batch.lines,
                                                                    done |-> batch.done]))]
                   ELSE batch' = [batch EXCEPT !.done = @ + 1,
                                               !.clean = @ /\ ~ran.failed]
                /\ UNCHANGED <<pc, last>>
    /\ UNCHANGED <<path, budget, status, rows, index, storagePath, orphan, prev, session>>

\* the loop has read the last line: Ok(()), to the caller of the Database or
\* to the handle_command of the line that named this file
ExecBatchReturn ==
    /\ status = "open" /\ pc = "batch"
    /\ batch.done = Len(batch.lines)
    /\ IF batch.stack = <<>>
       THEN /\ pc' = "idle"
            /\ last' = Res("exec_batch", 0, "Ok", NoRow)
            /\ batch' = batch
       ELSE /\ batch' = Resumed
            /\ UNCHANGED <<pc, last>>
    /\ UNCHANGED <<path, budget, files, status, rows, index, storagePath, orphan, prev, session, writes>>

\* a step of exec_batch on a Database its owner calls directly
Batch(step) == step /\ UNCHANGED handle

InitBatch ==
    /\ handle = NoHandle
    /\ batch = NoBatch
    /\ path \in Paths
    /\ files = [f \in FileNames |-> NoFile]
    /\ status = "closed"
    /\ rows = <<>>
    /\ index = EmptyIndex
    /\ storagePath = LOG
    /\ orphan = NoFile
    /\ pc = "idle"
    /\ last = Res("none", 0, "Ok", NoRow)
    /\ prev = NoPrev
    /\ session = "plain"
    /\ writes = 0
    /\ budget = MaxBatchWrites

NextBatch ==
    \/ Engine(DatabaseNew)
    \/ \E id \in HandleKeys, age \in Ages, io \in {"ok", "fail"} : Engine(Insert(id, NextName, age, io))
    \/ \E id \in HandleKeys : Engine(SelectById(id))
    \/ \E src \in BatchSources : Batch(ExecBatchOpen(src))
    \/ \E io \in {"ok", "read_fail", "open_fail", "write_fail"} : Batch(ExecBatchLine(io))
    \/ Batch(ExecBatchReturn)
    \/ Engine(Close)

SpecBatch == InitBatch /\ [][NextBatch]_vars

\* ---------------------------------------------------------------- nested batch
\* exec_batch on the files of BatchDir, whose lines name batch files.
MaxNestedWrites == 4

InitNested ==
    /\ handle = NoHandle
    /\ batch = NoBatch
    /\ path = LOG
    /\ files = [f \in FileNames |-> NoFile]
    /\ status = "closed"
    /\ rows = <<>>
    /\ index = EmptyIndex
    /\ storagePath = LOG
    /\ orphan = NoFile
    /\ pc = "idle"
    /\ last = Res("none", 0, "Ok", NoRow)
    /\ prev = NoPrev
    /\ session = "plain"
    /\ writes = 0
    /\ budget = MaxNestedWrites

NextNested ==
    \/ Engine(DatabaseNew)
    \/ \E src \in NestedSources : Batch(ExecBatchOpen(src))
    \/ \E io \in {"ok", "read_fail", "open_fail", "write_fail"} : Batch(ExecBatchLine(io))
    \/ Batch(ExecBatchReturn)
    \/ Engine(Close)

SpecNested == InitNested /\ [][NextNested]_vars

\* ---------------------------------------------------------------- handle batch
\* DatabaseHandle::exec_batch: db.exec_batch(path) under the write guard,
\* one step per turn of its loop, while other callers ask for the lock.
HandleBatchStart(t, src) ==
    /\ handle.used /\ handle.at[t] = "in" /\ handle.op[t] = BatchOp
    /\ ExecBatchOpen(src)
    /\ handle' = [handle EXCEPT !.at[t] = IF src.exists THEN "running" ELSE "done"]

HandleBatchStep(t, io) ==
    /\ handle.used /\ handle.at[t] = "running" /\ handle.op[t] = BatchOp
    /\ \/ /\ ExecBatchLine(io)
          /\ IF io \in {"read_fail", "open_fail"} /\ batch.stack = <<>>
             THEN Ran(t) ELSE UNCHANGED handle
       \/ /\ io = "ok" /\ ExecBatchReturn
          /\ IF batch.stack = <<>> THEN Ran(t) ELSE UNCHANGED handle

\* what the callers beside the batch ask for
BesideOps == {BatchOp, [name |-> "select_by_id", id |-> 1], [name |-> "insert", id |-> 1]}

InitHandleBatch ==
    /\ handle = NoHandle
    /\ batch = NoBatch
    /\ path = LOG
    /\ files = [f \in FileNames |-> NoFile]
    /\ status = "closed"
    /\ rows = <<>>
    /\ index = EmptyIndex
    /\ storagePath = LOG
    /\ orphan = NoFile
    /\ pc = "idle"
    /\ last = Res("none", 0, "Ok", NoRow)
    /\ prev = NoPrev
    /\ session = "plain"
    /\ writes = 0
    /\ budget = MaxBatchWrites

NextHandleBatch ==
    \/ HandleNew
    \/ \E t \in Threads, op \in BesideOps : HandleCall(t, op)
    \/ \E t \in Threads : LockRead(t)
    \/ \E t \in Threads : LockWrite(t)
    \/ \E t \in Threads, io \in {"ok", "fail"} : HandleRun(t, io)
    \/ \E t \in Threads, src \in BatchSources : HandleBatchStart(t, src)
    \/ \E t \in Threads, io \in {"ok", "read_fail", "open_fail", "write_fail"} : HandleBatchStep(t, io)
    \/ \E t \in Threads : HandleReturn(t)

SpecHandleBatch == InitHandleBatch /\ [][NextHandleBatch]_vars

\* ---------------------------------------------------------------- handle, scheduled
\* The callers of one DatabaseHandle under a fair scheduler: a caller that
\* holds the guard goes on when its I/O succeeds (an error ends its call as
\* well, but nothing makes an I/O fail); a caller that finds the lock taken
\* parks in the lock's queue, and parking_lot's lock is eventually fair: the
\* caller at the head of the queue, if it can be handed the lock again and
\* again, is handed it.
MaxLiveWrites == 5

\* the lock can be given to caller t as things stand
Grantable(t) ==
    /\ handle.writer = "none"
    /\ handle.op[t] \in WriteOps => handle.readers = {}

\* read() and write() off the fast path: the caller parks at the end of the
\* lock's queue
Park(t) ==
    /\ handle.used /\ handle.at[t] = "waiting"
    /\ ~Grantable(t) \/ (handle.op[t] \in ReadOps /\ WaitingWriters # {})
    /\ handle' = [handle EXCEPT !.at[t] = "parked", !.queue = Append(@, t)]
    /\ UNCHANGED <<path, budget, files, status, rows, index, storagePath, orphan, pc, last, prev, session, writes, batch>>

\* a guard is dropped while callers are parked: the unlock hands the lock to
\* the caller at the head of the queue, a reader there getting its guard
\* while the writers behind it stay parked
LockHandOff(t) ==
    /\ handle.used /\ handle.at[t] = "parked"
    /\ handle.queue # <<>> /\ Head(handle.queue) = t
    /\ Grantable(t)
    /\ handle' = [handle EXCEPT !.at[t] = "in", !.queue = Tail(@),
                                !.writer = IF handle.op[t] \in WriteOps THEN t ELSE @,
                                !.readers = IF handle.op[t] \in ReadOps THEN @ \cup {t} ELSE @]
    /\ UNCHANGED <<path, budget, files, status, rows, index, storagePath, orphan, pc, last, prev, session, writes, batch>>

LiveSources == {SourceOf(f) : f \in {"self.txt", "flat.txt"}}

\* what each caller asks for: one runs batches or reads, one inserts or
\* reads, one reads
LiveOps(t) ==
    CASE t = "a" -> {BatchOp, [name |-> "select_all", id |-> 0]}
      [] t = "b" -> {[name |-> "insert", id |-> 1], [name |-> "select_by_id", id |-> 1]}
      [] OTHER -> {[name |-> "select_by_id", id |-> 1]}

InitHandleLive ==
    /\ handle = NoHandle
    /\ batch = NoBatch
    /\ path = LOG
    /\ files = [f \in FileNames |-> NoFile]
    /\ status = "closed"
    /\ rows = <<>>
    /\ index = EmptyIndex
    /\ storagePath = LOG
    /\ orphan = NoFile
    /\ pc = "idle"
    /\ last = Res("none", 0, "Ok", NoRow)
    /\ prev = NoPrev
    /\ session = "plain"
    /\ writes = 0
    /\ budget = MaxLiveWrites

NextHandleLive ==
    \/ HandleNew
    \/ \E t \in Threads : \E op \in LiveOps(t) : HandleCall(t, op)
    \/ \E t \in Threads : LockRead(t)
    \/ \E t \in Threads : LockWrite(t)
    \/ \E t \in Threads : Park(t)
    \/ \E t \in Threads : LockHandOff(t)
    \/ \E t \in Threads, io \in {"ok", "fail"} : HandleRun(t, io)
    \/ \E t \in Threads, src \in LiveSources : HandleBatchStart(t, src)
    \/ \E t \in Threads, io \in {"ok", "open_fail"} : HandleBatchStep(t, io)
    \/ \E t \in Threads : HandleReturn(t)

FairHandle ==
    \A t \in Threads :
        /\ WF_vars(LockRead(t) \/ LockWrite(t) \/ Park(t))
        /\ SF_vars(LockHandOff(t))
        /\ WF_vars(HandleRun(t, "ok"))
        /\ WF_vars(\E src \in LiveSources : HandleBatchStart(t, src))
        /\ WF_vars(HandleBatchStep(t, "ok"))
        /\ WF_vars(HandleReturn(t))

SpecHandleLive == InitHandleLive /\ [][NextHandleLive]_vars /\ FairHandle

\* ---------------------------------------------------------------- replay
\* Storage::load_all as a function of the journal text: the journal is any
\* text of at most MaxLines lines, each line an entry, a blank line or an
\* undecodable one, the last line with or without its "\n".
LineKinds ==
    {[kind |-> c, id |-> k] : c \in {"Insert", "Delete"}, k \in Keys}
        \cup {[kind |-> "Bad", id |-> 0], [kind |-> "Blank", id |-> 0]}

\* the row the Insert entry on line i carries
LineRow(i, id) == Row(id, NamePool[i], 30)

LineText(i, c) ==
    IF c.kind = "Insert" THEN <<InsertEntry(LineRow(i, c.id))>>
    ELSE IF c.kind = "Delete" THEN <<DeleteEntry(c.id)>>
    ELSE IF c.kind = "Bad" THEN <<Partial>>
    ELSE <<>>

RECURSIVE JournalText(_, _, _)
JournalText(cs, i, newline) ==
    IF i > Len(cs)
    THEN <<>>
    ELSE LineText(i, cs[i])
            \o (IF i < Len(cs) \/ newline THEN <<NL>> ELSE <<>>)
            \o JournalText(cs, i + 1, newline)

JournalInputs == UNION {[1..n -> LineKinds] : n \in 0..MaxLines}

InitReplay ==
    /\ handle = NoHandle
    /\ batch = NoBatch
    /\ path = LOG
    /\ \E cs \in JournalInputs, newline \in BOOLEAN :
          /\ files = [f \in FileNames |-> IF f = LOG THEN File(JournalText(cs, 1, newline)) ELSE NoFile]
          /\ prev = [by |-> "input", lines |-> cs, newline |-> newline]
    /\ status = "closed"
    /\ rows = <<>>
    /\ index = EmptyIndex
    /\ storagePath = LOG
    /\ orphan = NoFile
    /\ pc = "idle"
    /\ last = Res("none", 0, "Ok", NoRow)
    /\ session = "plain"
    /\ writes = 0
    /\ budget = 0

\* storage.load_all()
LoadAllCall ==
    /\ status = "closed"
    /\ rows' = LoadAll(files, storagePath)
    /\ status' = "loaded"
    /\ last' = Res("load_all", 0, "Ok", NoRow)
    /\ UNCHANGED <<path, budget, files, index, storagePath, orphan, pc, prev, session, writes>>

NextReplay == Engine(LoadAllCall)

SpecReplay == InitReplay /\ [][NextReplay]_vars

\* ---------------------------------------------------------------- startup
\* Database::new on what a run can find in its working directory: no data/,
\* an empty data/, or a data/ whose journal and whose file at the given path
\* hold any text: entries, blank and undecodable lines, an array, a document
\* that is no array, nothing.
MaxBootLines == 2

BootJournals ==
    {NoFile}
        \cup {File(JournalText(cs, 1, newline)) :
                 cs \in UNION {[1..n -> LineKinds] : n \in 0..MaxBootLines},
                 newline \in BOOLEAN}

BootSnapshots ==
    {NoFile, File(<<>>), File(<<Partial>>),
     File(<<ArrayText(<<>>)>>),
     File(<<ArrayText(<<Row(1, "Alice", 30)>>)>>),
     File(<<ArrayText(<<Row(1, "Alice", 30)>>), NL>>),
     File(<<ArrayText(<<Row(2, "Bob", 30)>>), NL, Partial>>)}

InitBoot ==
    /\ handle = NoHandle
    /\ batch = NoBatch
    /\ path \in Paths
    /\ \/ files = NoDataDir
       \/ \E journal \in BootJournals, snapshot \in BootSnapshots :
             files = [f \in FileNames |->
                         IF f = LOG THEN journal
                         ELSE IF f = path THEN snapshot
                         ELSE NoFile]
    /\ status = "closed"
    /\ rows = <<>>
    /\ index = EmptyIndex
    /\ storagePath = LOG
    /\ orphan = NoFile
    /\ pc = "idle"
    /\ last = Res("none", 0, "Ok", NoRow)
    /\ prev = NoPrev
    /\ session = "plain"
    /\ writes = 0
    /\ budget = 0

NextBoot ==
    \/ Engine(DatabaseNew)
    \/ \E id \in Keys : Engine(SelectById(id))
    \/ Engine(SelectAll)
    \/ Engine(Close)

SpecBoot == InitBoot /\ [][NextBoot]_vars

\* ---------------------------------------------------------------- reopen
\* Sessions of inserts, deletes and reads whose journal writes succeed, each
\* ended by a drop and followed by a Database::new on the same path; enough
\* writes to delete a record and insert its id again.
MaxReopenWrites == 3

InitReopen ==
    /\ handle = NoHandle
    /\ batch = NoBatch
    /\ path \in Paths
    /\ files = [f \in FileNames |-> NoFile]
    /\ status = "closed"
    /\ rows = <<>>
    /\ index = EmptyIndex
    /\ storagePath = LOG
    /\ orphan = NoFile
    /\ pc = "idle"
    /\ last = Res("none", 0, "Ok", NoRow)
    /\ prev = NoPrev
    /\ session = "plain"
    /\ writes = 0
    /\ budget = MaxReopenWrites

NextReopen ==
    \/ Engine(DatabaseNew)
    \/ \E id \in Keys, age \in Ages : Engine(Insert(id, NextName, age, "ok"))
    \/ \E id \in Keys : Engine(DeleteById(id, "ok"))
    \/ \E id \in Keys : Engine(SelectById(id))
    \/ Engine(Close)

SpecReopen == InitReopen /\ [][NextReopen]_vars

\* ---------------------------------------------------------------- rebuild
\* IdIndex::rebuild as a function of the rows: any rows of at most
\* MaxRebuildRows records, ids repeated or not, and any index the engine held
\* before the call.
MaxRebuildRows == 3

RebuildRows ==
    UNION {{[i \in 1..n |-> LineRow(i, ids[i])] : ids \in [1..n -> Keys]} : n \in 0..MaxRebuildRows}

EarlierIndexes ==
    UNION {[ks -> 0..1] : ks \in SUBSET {1, 2, 3}}

InitRebuild ==
    /\ handle = NoHandle
    /\ batch = NoBatch
    /\ path = LOG
    /\ files = [f \in FileNames |-> NoFile]
    /\ status = "closed"
    /\ rows \in RebuildRows
    /\ index \in EarlierIndexes
    /\ prev = [by |-> "input", index |-> index]
    /\ storagePath = LOG
    /\ orphan = NoFile
    /\ pc = "idle"
    /\ last = Res("none", 0, "Ok", NoRow)
    /\ session = "plain"
    /\ writes = 0
    /\ budget = 0

\* self.index = IdIndex::rebuild(&self.rows)
RebuildCall ==
    /\ status = "closed"
    /\ index' = Rebuild(rows)
    /\ status' = "rebuilt"
    /\ last' = Res("rebuild", 0, "Ok", NoRow)
    /\ UNCHANGED <<path, budget, files, rows, storagePath, orphan, pc, prev, session, writes>>

NextRebuild == Engine(RebuildCall)

SpecRebuild == InitRebuild /\ [][NextRebuild]_vars

\* ---------------------------------------------------------------- policy
\* Database::should_compact as a function of the live rows: an open engine
\* that holds any number of rows up to MaxPolicyRows, of distinct ids, and
\* the journal of the inserts that made them.
MaxPolicyRows == 5

PolicyKeys == 1..MaxPolicyRows

PolicyRows ==
    UNION {{[i \in 1..n |-> LineRow(i, ids[i])] :
               ids \in {f \in [1..n -> PolicyKeys] : \A i, j \in 1..n : f[i] = f[j] => i = j}} :
           n \in 0..MaxPolicyRows}

RECURSIVE InsertsOf(_, _)
InsertsOf(rs, i) ==
    IF i > Len(rs) THEN <<>> ELSE <<InsertEntry(rs[i]), NL>> \o InsertsOf(rs, i + 1)

InitPolicy ==
    /\ handle = NoHandle
    /\ batch = NoBatch
    /\ path = LOG
    /\ rows \in PolicyRows
    /\ index = Rebuild(rows)
    /\ files = [f \in FileNames |-> IF f = LOG THEN File(InsertsOf(rows, 1)) ELSE NoFile]
    /\ status = "open"
    /\ storagePath = LOG
    /\ orphan = NoFile
    /\ pc = "idle"
    /\ last = Res("open", 0, "Ok", NoRow)
    /\ prev = NoPrev
    /\ session = "plain"
    /\ writes = 0
    /\ budget = 0

\* db.should_compact()
ShouldCompactCall ==
    /\ Idle
    /\ last' = Res("should_compact", 0, IF ShouldCompact(rows) THEN "true" ELSE "false", NoRow)
    /\ UNCHANGED <<path, budget, files, status, rows, index, storagePath, orphan, pc, prev, session, writes>>

NextPolicy == Engine(ShouldCompactCall)

SpecPolicy == InitPolicy /\ [][NextPolicy]_vars

\* ---------------------------------------------------------------- claims
\* the fold the journal stands for: Insert pushes the record, Delete removes
\* the records with that key; blank and undecodable lines count for nothing
RECURSIVE FoldEntries(_, _, _)
FoldEntries(cs, i, acc) ==
    IF i > Len(cs)
    THEN acc
    ELSE FoldEntries(cs, i + 1,
            IF cs[i].kind = "Insert" THEN Append(acc, LineRow(i, cs[i].id))
            ELSE IF cs[i].kind = "Delete" THEN SelectSeq(acc, LAMBDA r : r.id # cs[i].id)
            ELSE acc)

Reopened == status = "open" /\ last.op = "open" /\ prev.by \in {"drop", "crash", "torn"}
Replayed == last.op = "load_all" /\ prev.by = "input"

\* C1 (violated by the code): after a session of inserts and deletes only, drop and
\* reopen with the same path: select_all() holds the same set of records as
\* the live set before the drop.
C1_DurabilityRoundTrip ==
    (Reopened /\ prev.by = "drop" /\ prev.session = "plain")
        => RowSet(rows) = RowSet(prev.live)

\* C2 (violated by the code): after a crash at any step of compact(), or right after it,
\* the next open yields the live collection compact() was called on, every
\* record once.
C2_CompactionCrashSafe ==
    (Reopened /\ prev.by = "crash")
        => RowSet(rows) = RowSet(prev.live) /\ Len(rows) = Len(prev.live)

\* C3 (violated by the code): after a session of inserts, deletes and compact() calls,
\* drop and reopen: select_all() is duplicate-free and holds the same set of
\* records as the live set before the drop (stated for the sessions that
\* did call compact()).
C3_DurabilityAcrossCompaction ==
    (Reopened /\ prev.by = "drop" /\ prev.session = "compacted")
        => RowSet(rows) = RowSet(prev.live) /\ NoDuplicateIds(rows)

\* C4 (holds): insert of an id that is in the live collection returns
\* DuplicateIdError and leaves the live collection, the index and every file
\* (the journal included) as they were.
C4_DuplicateInsertRejected ==
    [][\A id \in Keys, name \in {NextName}, age \in Ages, io \in {"ok", "fail"} :
          (id \in Ids(rows) /\ Insert(id, name, age, io))
              => /\ last'.res = "DuplicateIdError"
                 /\ rows' = rows
                 /\ index' = index
                 /\ files' = files
                 /\ orphan' = orphan]_vars

C4_Witness ==
    /\ last.op = "insert" /\ last.res = "DuplicateIdError"
    /\ last.id \in Ids(rows)
    /\ Len(rows) = 2

\* C5 (violated by the code): in every reachable state no two records of the live
\* collection share an id.
C5_KeyUniqueness == NoDuplicateIds(rows)

\* C6 (violated by the code): after any sequence of inserts and deletes the index maps
\* every id of the live collection to an offset holding a record of that id,
\* and no other id.
C6_IndexConsistency ==
    Idle => \A id \in Keys :
        IF id \in Ids(rows)
        THEN /\ id \in DOMAIN index
             /\ index[id] < Len(rows)
             /\ rows[index[id] + 1].id = id
        ELSE id \notin DOMAIN index

\* a journal whose only undecodable line is its last line
TornTail(cs) ==
    /\ Len(cs) >= 1
    /\ cs[Len(cs)].kind = "Bad"
    /\ \A i \in 1..(Len(cs) - 1) : cs[i].kind # "Bad"

\* C7 (holds): replay of a journal whose last line is undecodable
\* returns the fold of the well-formed entries before it.
C7_TornTailTolerance ==
    (Replayed /\ TornTail(prev.lines)) => rows = FoldEntries(prev.lines, 1, <<>>)

C7_Witness ==
    /\ Replayed /\ TornTail(prev.lines)
    /\ \E i, j \in 1..Len(prev.lines) :
          /\ i < j
          /\ prev.lines[i].kind = "Insert"
          /\ prev.lines[j].kind = "Delete"
          /\ prev.lines[i].id = prev.lines[j].id
    /\ Len(rows) = 1

\* a journal with one undecodable line, which is not its last line
MidCorrupt(cs) ==
    \E i \in 1..(Len(cs) - 1) :
        /\ cs[i].kind = "Bad"
        /\ \A j \in 1..Len(cs) : j # i => cs[j].kind # "Bad"

\* C8 (violated by the code): replay of a journal with an undecodable line that is not
\* the last returns the fold of all well-formed entries, those after the
\* undecodable line included.
C8_MidFileCorruptionSkipped ==
    (Replayed /\ MidCorrupt(prev.lines)) => rows = FoldEntries(prev.lines, 1, <<>>)

\* C9 (holds): delete of an id that is not in the live collection
\* returns Ok(false) and leaves the live collection, the index and every
\* file as they were.
C9_DeleteAbsentChangesNothing ==
    [][\A id \in Keys, io \in {"ok", "fail"} :
          (id \notin Ids(rows) /\ DeleteById(id, io))
              => /\ last'.res = "false"
                 /\ rows' = rows
                 /\ index' = index
                 /\ files' = files
                 /\ orphan' = orphan]_vars

C9_Witness ==
    /\ last.op = "delete" /\ last.res = "false"
    /\ last.id \notin Ids(rows)
    /\ Len(rows) >= 1

\* C10 (holds): insert of an id that is not in the live collection,
\* the journal write succeeding, returns Ok, appends the Insert entry of the
\* record and nothing else to the journal, puts the record last in the live
\* collection, keeps every other record and its offset, and select of the
\* id returns the record.
C10_InsertAppends ==
    [][\A id \in Keys, name \in {NextName}, age \in Ages :
          (id \notin Ids(rows) /\ Insert(id, name, age, "ok"))
              => /\ last'.res = "Ok"
                 /\ HandleFile' = HandleFile \o <<InsertEntry(Row(id, name, age)), NL>>
                 /\ \A f \in FileNames : f # storagePath => files'[f] = files[f]
                 /\ rows' = Append(rows, Row(id, name, age))
                 /\ DOMAIN index' = DOMAIN index \cup {id}
                 /\ \A k \in DOMAIN index : index'[k] = index[k]
                 /\ Selected(rows', index', id) = Res("select", id, "Some", Row(id, name, age))]_vars

C10_Witness ==
    /\ last.op = "insert" /\ last.res = "Ok"
    /\ Len(rows) = 2
    /\ rows[2] = last.row
    /\ rows[1].id # last.id

\* C11 (violated by the code): delete of an id that is in the live
\* collection, the journal write succeeding, returns Ok(true), appends the
\* Delete entry of the id and nothing else to the journal, removes that one
\* record and keeps the others in their order, and afterwards neither the
\* index nor select finds the id.
C11_DeleteRemoves ==
    [][\A id \in Keys :
          (id \in Ids(rows) /\ DeleteById(id, "ok"))
              => /\ last'.res = "true"
                 /\ HandleFile' = HandleFile \o <<DeleteEntry(id), NL>>
                 /\ Len(rows') = Len(rows) - 1
                 /\ rows' = SelectSeq(rows, LAMBDA r : r.id # id)
                 /\ IdIndexGet(index', id) = -1
                 /\ Selected(rows', index', id).res = "None"]_vars

\* the place of a record's insert among the journal writes of the run: the
\* name it was given is the name of that write
Stamp(row) == CHOOSE i \in 1..Len(NamePool) : NamePool[i] = row.name

\* C12 (holds): at every point of a session of inserts and deletes the live
\* collection lists its records in the order of the inserts that created
\* them.
C12_InsertionOrder ==
    \A i, j \in 1..Len(rows) : i < j => Stamp(rows[i]) < Stamp(rows[j])

\* a record inserted between two others has been deleted and both are
\* still there
C12_Witness ==
    /\ Idle /\ last.op = "delete" /\ last.res = "true"
    /\ Len(rows) = 2
    /\ \E n \in (Stamp(rows[1]) + 1)..(Stamp(rows[2]) - 1) :
          \E k \in 1..(Len(HandleFile) - 1) :
              /\ HandleFile[k].kind = "Insert"
              /\ Stamp(HandleFile[k].row) = n

\* a step of compact(): from its call to its return
CompactStep ==
    /\ status = "open" /\ status' = "open"
    /\ \/ pc # "idle"
       \/ pc' # "idle"
       \/ last'.op = "compact" /\ last'.res = "IoError" /\ files' = files

\* the journal: the file compact() truncates, the file of the Storage path
\* and the file the Storage handle appends to
JournalUntouched ==
    /\ files'[LOG] = files[LOG]
    /\ files'[storagePath] = files[storagePath]
    /\ HandleFile' = HandleFile

\* C13 (holds): compact() changes the journal only in log_truncate, which it
\* reaches only with the temporary file renamed into place and the snapshot
\* file holding the whole live collection; when a call of snapshot_write
\* fails compact() returns the error and the journal is as it was.
C13_TruncateAfterSnapshot ==
    [][CompactStep =>
          /\ files'[LOG] # files[LOG]
                => /\ pc = "renamed"
                   /\ ~files[TMP].exists
                   /\ SnapshotRead(files, SNAPSHOT) = [ok |-> TRUE, rows |-> rows]
          /\ pc \in {"idle", "tmp_open"} => JournalUntouched
          /\ pc = "tmp_written"
                => IF pc' = "renamed"
                   THEN files'[LOG] = files[LOG] /\ HandleFile' = HandleFile
                   ELSE JournalUntouched /\ last'.res = "IoError" /\ pc' = "idle"
          /\ pc' = "idle" /\ pc # "renamed" => last'.res = "IoError"]_vars

\* compact() has returned the error of a failed rename or write, and the
\* journal still holds its entries
C13_Witness ==
    /\ Idle /\ last.op = "compact" /\ last.res = "IoError"
    /\ files[TMP].exists
    /\ storagePath = LOG /\ Len(files[LOG].data) >= 2
    /\ Len(rows) >= 1

\* the tokens of a file
Tokens(f) == {f.data[i] : i \in 1..Len(f.data)}

\* C14 (holds): over every step of compact(), and over the death of the
\* process at any of them, the snapshot file is what it was or is exactly
\* the serialization of the live collection; only the temporary file ever
\* receives part of a text.
C14_SnapshotAtomic ==
    [][(status = "open" /\ (pc # "idle" \/ pc' # "idle"))
          => /\ \/ files'[SNAPSHOT] = files[SNAPSHOT]
                \/ files'[SNAPSHOT] = File(<<ArrayText(rows)>>)
             /\ \A f \in FileNames \ {TMP} :
                    Partial \in Tokens(files'[f]) => Partial \in Tokens(files[f])]_vars

\* the process died inside write_all: the temporary file holds part of the
\* text, the snapshot file the whole previous snapshot
C14_Witness ==
    /\ status = "closed" /\ prev # NoPrev /\ prev.by = "crash"
    /\ Partial \in Tokens(files[TMP])
    /\ SnapshotRead(files, SNAPSHOT).ok
    /\ SnapshotRead(files, SNAPSHOT).rows # prev.live

\* C15 (violated by the code): compact() leaves the live collection and the
\* index as they are, and when it returns Ok the snapshot file holds exactly
\* the live collection, in order, and the journal of this Database (the file
\* of its Storage path, which its handle appends to) is empty.
C15_CompactResult ==
    [][CompactStep =>
          /\ rows' = rows /\ index' = index
          /\ (pc' = "idle" /\ last'.res = "Ok")
                => /\ SnapshotRead(files', SNAPSHOT) = [ok |-> TRUE, rows |-> rows]
                   /\ files'[storagePath] = File(<<>>)
                   /\ HandleFile' = <<>>]_vars

\* C16 (violated by the code): when an insert brings the live collection to
\* the threshold, the engine compacts: by the time the insert has returned
\* the snapshot file holds the live collection and the journal holds no
\* entry.
C16_CompactionTriggered ==
    (Idle /\ last.op = "insert" /\ last.res = "Ok" /\ ShouldCompact(rows))
        => /\ HandleFile = <<>>
           /\ SnapshotRead(files, SNAPSHOT) = [ok |-> TRUE, rows |-> rows]

\* C17 (holds): when the journal write of an insert of an id that is not in
\* the live collection fails, insert returns the I/O error, the live
\* collection and the index are as before the call, and the id is still one
\* that insert does not take for a duplicate.
C17_FailedInsertChangesNothing ==
    [][\A id \in Keys, age \in Ages :
          (id \notin Ids(rows) /\ Insert(id, NextName, age, "fail"))
              => /\ last'.res = "IoError"
                 /\ rows' = rows
                 /\ index' = index
                 /\ ~HasId(rows', id)]_vars

\* an insert has just failed on the journal write: its id is not in the
\* live collection, which holds another record
C17_Witness ==
    /\ Idle /\ last.op = "insert" /\ last.res = "IoError"
    /\ last.id \notin Ids(rows) /\ last.id \notin DOMAIN index
    /\ Len(rows) = 1

\* C18 (violated by the code): when the journal write of a delete of an id
\* that is in the live collection fails, delete returns the I/O error and
\* the live collection and the index are as before the call: select of the
\* id still returns its record.
C18_FailedDeleteChangesNothing ==
    [][\A id \in Keys :
          (id \in Ids(rows) /\ id \in DOMAIN index /\ DeleteById(id, "fail"))
              => /\ last'.res = "IoError"
                 /\ rows' = rows
                 /\ index' = index
                 /\ Selected(rows', index', id) = Selected(rows, index, id)]_vars

\* C19 (holds): select_by_id and select_all change neither the live
\* collection, the index nor any file; select_by_id returns a result (it
\* does not fail), None for an id that is not in the live collection, and
\* select_all returns the live collection, the empty list when there is
\* none.
C19_ReadsArePure ==
    [][/\ \A id \in Keys :
            SelectById(id)
                => /\ rows' = rows /\ index' = index
                   /\ files' = files /\ orphan' = orphan
                   /\ last'.res \in {"Some", "None"}
                   /\ id \notin Ids(rows) => last'.res = "None"
       /\ SelectAll
            => /\ rows' = rows /\ index' = index
               /\ files' = files /\ orphan' = orphan
               /\ last'.res = "Ok" /\ last'.rows = rows]_vars

\* select_by_id has just answered None for an id that is not in the live
\* collection, which holds another record
C19_Witness ==
    /\ Idle /\ last.op = "select" /\ last.res = "None"
    /\ last.id \notin Ids(rows)
    /\ Len(rows) = 1
    /\ files[storagePath].data # <<>>

\* C20 (holds): while a caller holds the guard for insert, delete_by_id,
\* reset_db, compact or shutdown, no other caller of the handle holds a
\* guard; callers of select_by_id and select_all may hold theirs together.
C20_ReaderWriterExclusion ==
    handle.used =>
        /\ \A t \in Inside : handle.op[t] \in WriteOps => Inside = {t}
        /\ \A t \in Inside : handle.op[t] \in WriteOps <=> handle.writer = t
        /\ \A t \in Inside : handle.op[t] \in ReadOps <=> t \in handle.readers

\* two callers are inside select_by_id / select_all at once
C20_Witness ==
    /\ handle.used
    /\ \E t, u \in Inside :
          /\ t # u
          /\ handle.op[t].name = "select_by_id"
          /\ handle.op[u].name = "select_all"
          /\ handle.at[t] = "done" /\ handle.at[u] = "in"
    /\ writes >= 1

\* the journal entry a call of insert or delete_by_id writes
EntryOf(op, row) == IF op.name = "insert" THEN InsertEntry(row) ELSE DeleteEntry(op.id)

\* C21 (holds): through one DatabaseHandle, while only inserts, deletes and
\* reads have been called: the journal grows only by the caller that holds
\* the write guard, by the one whole entry of its call, at the end (so the
\* journal lists the calls in the order they held the lock); the live
\* collection is what the journal's entries give when applied in that
\* order; an insert of an id a concurrent insert has already put in the live
\* collection returns DuplicateIdError, and no id is ever live twice.
C21_MutationsLinearizable ==
    [][(handle.used /\ session' = "plain") =>
          /\ (HandleFile' # HandleFile \/ rows' # rows)
                => \E t \in Threads :
                      /\ handle.writer = t /\ Inside = {t}
                      /\ handle.at[t] = "in" /\ handle'.at[t] = "done"
                      /\ handle.op[t].name \in {"insert", "delete_by_id"}
                      /\ last'.res \in {"Ok", "true"}
                      /\ last'.id = handle.op[t].id /\ last'.row.id = handle.op[t].id
                      /\ HandleFile' = HandleFile \o <<EntryOf(handle.op[t], last'.row), NL>>
          /\ rows' = LoadAll(files', storagePath')
          /\ NoDuplicateIds(rows')
          /\ \A t \in Threads :
                (/\ handle.at[t] = "in" /\ handle'.at[t] = "done"
                 /\ handle.op[t].name = "insert")
                    => IF handle.op[t].id \in Ids(rows)
                       THEN last'.res = "DuplicateIdError" /\ rows' = rows
                       ELSE last'.res \in {"Ok", "IoError"}]_vars

\* two callers' entries stand in the journal in the order the callers held
\* the write guard, the second has just run and a third caller, whose insert
\* of the same id came in meanwhile, waits for the guard
C21_Witness ==
    /\ handle.used /\ session = "plain"
    /\ \E t, u \in Threads :
          /\ t # u
          /\ handle.writer = t /\ handle.at[t] = "done"
          /\ handle.op[t].name = "delete_by_id"
          /\ last.op = "delete" /\ last.res = "true"
          /\ handle.at[u] = "waiting" /\ handle.op[u].name = "insert"
          /\ handle.op[u].id = handle.op[t].id
    /\ Len(HandleFile) = 4
    /\ HandleFile[1].kind = "Insert" /\ HandleFile[3].kind = "Delete"
    /\ rows = <<>>

\* the valid operations of the lines from the i-th on, applied in order to
\* the live collection rs as insert and delete_by_id apply them
RECURSIVE ApplyLines(_, _, _)
ApplyLines(rs, lines, i) ==
    IF i > Len(lines) THEN rs
    ELSE LET c == ParseCommand(lines[i])
             pos == IdIndexGet(Rebuild(rs), c.id)
         IN  IF c.ok /\ c.cmd = "insert" /\ ~HasId(rs, c.id)
             THEN ApplyLines(Append(rs, Row(c.id, c.name, c.age)), lines, i + 1)
             ELSE IF c.ok /\ c.cmd = "delete" /\ pos >= 0
             THEN ApplyLines(RemoveAt(rs, pos), lines, i + 1)
             ELSE ApplyLines(rs, lines, i + 1)

\* exec_batch returns in this step
BatchReturns == pc = "batch" /\ pc' = "idle"

\* C22 (violated by the code): when exec_batch returns Ok and no journal
\* write of the batch failed, the live collection of the engine it was called
\* on is the one before the call with every valid line of the source applied
\* in order, and the index is the index of that collection.
C22_BatchAppliesToEngine ==
    [][(BatchReturns /\ last'.res = "Ok" /\ batch.clean)
          => /\ rows' = ApplyLines(batch.before, batch.lines, 1)
             /\ index' = Rebuild(rows')]_vars

\* C23 (violated by the code): exec_batch hands every line of its source to
\* handle_command, whatever the lines before it came to, and returns Ok;
\* it returns early, with an error, only when reading the source failed.
C23_BatchSkipsFailedLines ==
    [][BatchReturns
          => \/ last'.res = "Ok" /\ batch'.done = Len(batch'.lines)
             \/ last'.res = "IoError" /\ batch'.stop = "read_fail"]_vars

\* a batch run by caller t stands between two of its operations
BetweenLines(t) ==
    /\ handle.used /\ handle.op[t] = BatchOp /\ handle.at[t] = "running"
    /\ pc = "batch" /\ batch.done > 0 /\ batch.done < Len(batch.lines)

\* C24 (violated by the code): while a batch run through the handle stands
\* between two of its operations, its caller holds no guard of the engine's
\* lock, so that a caller waiting with a select or an insert can be let in.
C24_BatchLocksPerOperation ==
    \A t \in Threads : BetweenLines(t) => handle.writer # t /\ t \notin handle.readers

\* C25 (holds): when reset_db() has returned Ok the live collection is empty,
\* the index answers none for every key, the file at the engine's journal
\* path is empty, and the insert that follows is not refused as a duplicate:
\* it succeeds unless its journal write fails.
C25_ResetEmptiesEngine ==
    [][/\ (status' = "open" /\ last'.op = "reset" /\ last'.res = "Ok")
            => /\ rows' = <<>>
               /\ \A k \in Keys : IdIndexGet(index', k) = -1
               /\ files'[storagePath'] = File(<<>>)
       /\ (status = "open" /\ last.op = "reset" /\ last.res = "Ok" /\ last'.op = "insert")
            => /\ last'.res \in {"Ok", "IoError"}
               /\ last'.res = "Ok" => rows' = <<last'.row>> /\ IdIndexGet(index', last'.id) = 0]_vars

\* the second journal write of the run is an insert made after a reset: the
\* journal holds that entry alone, the engine that record alone
C25_Witness ==
    /\ Idle /\ session = "other"
    /\ last.op = "insert" /\ last.res = "Ok"
    /\ writes = 2
    /\ ~files[TMP].exists /\ ~orphan.exists
    /\ files[storagePath].data = <<InsertEntry(last.row), NL>>
    /\ rows = <<last.row>>

\* Database::new is called in this step
Opens == status = "closed" /\ last'.op = "open"

\* no file the engine reads or writes exists
NothingStored(fs) == \A f \in DOMAIN fs : ~fs[f].exists

\* C26 (violated by the code): Database::new(p) where no journal and no
\* snapshot exists returns Ok, leaves an empty journal at data/p, and the
\* engine it returns has no rows and answers None for every key.
C26_FirstRunBootstraps ==
    [][(Opens /\ NothingStored(files))
          => /\ last'.res = "Ok" /\ status' = "open"
             /\ DataDir(files') /\ files'[path] = File(<<>>)
             /\ storagePath' = path
             /\ rows' = <<>>
             /\ \A k \in Keys : Selected(rows', index', k).res = "None"]_vars

Holding(rs, k) == {i \in 1..Len(rs) : rs[i].id = k}

\* the session that has ended deleted key k: its journal holds the entry
Deleted(k) ==
    \E i \in 1..Len(files[storagePath].data) : files[storagePath].data[i] = DeleteEntry(k)

\* an insert of key k right after delete(k) returned true succeeds and leaves
\* one record of key k, the new one, last, which select(k) returns
ReinsertInSession ==
    (/\ Idle /\ last.op = "delete" /\ last.res = "true"
     /\ last'.op = "insert" /\ last'.id = last.id)
        => /\ last'.res = "Ok"
           /\ Cardinality(Holding(rows', last.id)) = 1
           /\ rows'[Len(rows')] = last'.row
           /\ last'.row.id = last.id /\ last'.row # last.row
           /\ Selected(rows', index', last.id) = Res("select", last.id, "Some", last'.row)

\* a record whose key the session deleted and inserted again is the one
\* record of that key after the drop and the next Database::new
ReinsertAfterReopen ==
    (Opens /\ status' = "open" /\ prev.by = "drop")
        => \A i \in 1..Len(prev.live) :
              Deleted(prev.live[i].id)
                 => /\ Cardinality(Holding(rows', prev.live[i].id)) = 1
                    /\ \E j \in 1..Len(rows') : rows'[j] = prev.live[i]
                    /\ Selected(rows', index', prev.live[i].id).row = prev.live[i]

\* C29 (violated by the code): after delete(k) returned true, insert(k, ..)
\* succeeds; the live collection then holds one record of key k, the new
\* one, after all others, select(k) returns it, and that one record is what
\* the engine holds for k after close and reopen.
C29_DeleteThenReinsert == [][ReinsertInSession /\ ReinsertAfterReopen]_vars

\* C30 (holds): the map IdIndex::rebuild(rows) returns has exactly the ids
\* of rows as its keys, each with the largest offset at which rows holds the
\* id; what the index held before the call plays no part.
C30_RebuildMapsLastPosition ==
    last.op = "rebuild"
        => /\ DOMAIN index = Ids(rows)
           /\ \A k \in DOMAIN index :
                 /\ index[k] >= 0 /\ index[k] < Len(rows)
                 /\ rows[index[k] + 1].id = k
                 /\ \A j \in 1..Len(rows) : rows[j].id = k => j - 1 <= index[k]

\* rows that hold an id twice, rebuilt over an index that held another key
\* and another offset for that id
C30_Witness ==
    /\ last.op = "rebuild" /\ prev.by = "input"
    /\ Len(rows) = 3 /\ rows[1].id = 1 /\ rows[2].id = 1 /\ rows[3].id = 1
    /\ index = (1 :> 2)
    /\ DOMAIN prev.index = {1, 3} /\ prev.index[1] = 0

\* C31 (holds): should_compact() answers true exactly when the number of
\* live rows is a positive multiple of the threshold, so never for an empty
\* engine, and the call leaves the rows, the index and the files as they were.
C31_ShouldCompactPolicy ==
    [][last'.op = "should_compact"
          => /\ last'.res \in {"true", "false"}
             /\ last'.res = "true"
                  <=> \E m \in 1..Len(rows) : Len(rows) = m * Threshold
             /\ rows = <<>> => last'.res = "false"
             /\ rows' = rows /\ index' = index /\ files' = files
             /\ orphan' = orphan /\ status' = status /\ storagePath' = storagePath]_vars

\* the policy has answered true at twice the threshold
C31_Witness ==
    /\ last.op = "should_compact" /\ last.res = "true"
    /\ Len(rows) = 2 * Threshold

\* the journal the engine appends to holds the rest of a write that a dead
\* process left unfinished
TornJournal == ~orphan.exists /\ Partial \in Tokens(files[storagePath])

\* C32 (violated by the code): in an engine opened on a journal whose last
\* line is torn, an insert that has returned Ok is among the rows the replay
\* of the journal gives, and the id of a delete that has returned true is not.
C32_WritesAfterTornTailDurable ==
    (Idle /\ TornJournal)
        => /\ (last.op = "insert" /\ last.res = "Ok")
                => last.row \in RowSet(LoadAll(files, storagePath))
           /\ (last.op = "delete" /\ last.res = "true")
                => last.id \notin Ids(LoadAll(files, storagePath))

\* C33 (violated by the code): when reset_db() has returned Ok, the files are
\* such that a Database::new on the same path after the drop loads no rows,
\* also when a compaction has written a snapshot before.
C33_ResetSurvivesReopen ==
    (Idle /\ last.op = "reset" /\ last.res = "Ok")
        => Opened(files, path).rows = <<>>

\* C34 (violated by the code): the file an open engine appends its journal
\* entries to is the file the next Database::new on the same path takes as
\* its journal, and when compact() has returned Ok it is that file which is
\* empty.
C34_JournalLocationStable ==
    (Idle /\ ~orphan.exists)
        => /\ Opened(files, path).storagePath = storagePath
           /\ (last.op = "compact" /\ last.res = "Ok")
                => files[storagePath].data = <<>>

\* C35 (holds): in every state of an open engine every offset the index
\* holds is an offset of the live collection, so that select_by_id never
\* reads past its end.
C35_OffsetsInRange ==
    status = "open"
        => /\ \A k \in DOMAIN index : index[k] >= 0 /\ index[k] < Len(rows)
           /\ last.res # "panic"

\* an engine reopened onto files that give the same key twice, asked for
\* that key
C35_Witness ==
    /\ Idle /\ last.op = "select" /\ last.res = "Some"
    /\ Len(rows) = 2 /\ rows[1].id = rows[2].id
    /\ last.id = rows[2].id /\ index[last.id] = 1

\* the batch files whose exec_batch has not returned, outermost first
Running == [i \in 1..Len(batch.stack) |-> batch.stack[i].name] \o <<batch.name>>

\* C36 (violated by the code): exec_batch of a finite file comes to an end.
\* What bounds the calls of exec_batch by exec_batch is that no file is run
\* while a run of it has not returned: the nesting is then at most as deep
\* as there are batch files, and every loop is over finitely many lines.
C36_BatchTerminates ==
    pc = "batch"
        => \A i, j \in 1..Len(Running) : Running[i] = Running[j] => i = j

\* C37 (violated by the code, through C36): under the fair scheduler every
\* call on the handle that has reached the lock gets it and returns.
C37_EveryCallReturns ==
    \A t \in Threads :
        (handle.used /\ handle.at[t] = "waiting") ~> (handle.used /\ handle.at[t] = "out")

\* C38: every id the index holds is the id of a live row, so once insert's
\* scan over the live rows has found no row of the id, IdIndex::insert does
\* not refuse it: no insert ends with its row journaled and pushed and the
\* index answering DuplicateIdError.
C38_IndexKeysAreLive ==
    status = "open"
        => /\ DOMAIN index \subseteq Ids(rows)
           /\ ~(last.op = "insert" /\ last.res = "DuplicateIdError" /\ last.row # NoRow)

\* an insert has gone through while the index held fewer ids than the rows
C38_Witness ==
    /\ Idle /\ last.op = "insert" /\ last.res = "Ok"
    /\ Len(rows) = 2
    /\ DOMAIN index = {last.id}
    /\ index[last.id] = 1
====
